---- MODULE Spec2Model ----
(***************************************************************************)
(* Interconnector flow pipeline: the Ingestion Job                         *)
(* (Examples/entsoe_and_3rd_partyAPI_key.py) and the Query Service         *)
(* (Examples/second_Lambda_func.py), sharing the DynamoDB table            *)
(* "interconnector-data".                                                  *)
(*                                                                         *)
(* Time is counted in minutes since 00:00 UTC of the day BaseDays (days    *)
(* since 1970-01-01).  A YYYYMMDDHHMMSS integer n is held as the pair      *)
(* <<n \div 10^6, n % 10^6>> (the YYYYMMDD part, the HHMMSS part), because *)
(* n itself does not fit TLC's 32-bit integers; the order of the           *)
(* integers is the lexicographic order of the pairs.                       *)
(***************************************************************************)
EXTENDS Integers, Sequences, FiniteSets, TLC

\* ------------------------------------------------------------------ bounds
NumInv == 2         \* ingestion invocations that may overlap
NumTimes == 2       \* timestamps an upstream table may carry
NumVals == 2        \* distinct row values upstream may report
BaseDays == 19782   \* 2024-02-29: the window of the model spans a leap day
IngestFirst == 95   \* first upstream timestamp, in quarter hours: 23:45 of the base day
OldSlot == 44       \* a stored timestamp at the edge of the query window: 11:00
NowFirst == 2040    \* earliest query time: 10:00 of the day after the base day
NowSpan == 59       \* query times range over NowFirst..NowFirst + NowSpan
MaxDrift == 1       \* minutes the clock may advance while get_date_keys loops

\* ------------------------------------------------------- program constants
NumCountries == 4       \* country_code_non_uk_dict
QueriesPerCountry == 2  \* outward and inward query_crossborder_flows
WindowHours == 24       \* end_range - timedelta(hours=24)
StepMinutes == 15       \* start_range += timedelta(minutes=15)
RoundAtMinute == 30     \* t.minute // 30

Inv == 1..NumInv
Vals == 1..NumVals
TotalQueries == NumCountries * QueriesPerCountry

\* ------------------------------------------------------------ calendar
\* datetime's proleptic Gregorian calendar: day number -> <<year, month, day>>
CivilFromDays(z0) ==
    LET z == z0 + 719468
        era == z \div 146097
        doe == z - era * 146097
        yoe == (doe - doe \div 1460 + doe \div 36524 - doe \div 146096) \div 365
        doy == doe - (365 * yoe + yoe \div 4 - yoe \div 100)
        mp == (5 * doy + 2) \div 153
        d == doy - (153 * mp + 2) \div 5 + 1
        m == IF mp < 10 THEN mp + 3 ELSE mp - 9
        y == yoe + era * 400 + (IF m <= 2 THEN 1 ELSE 0)
    IN  <<y, m, d>>

\* x.strftime("%Y%m%d") as an integer, for the instant t (minutes since base)
StrfDate(t) ==
    LET c == CivilFromDays(BaseDays + t \div 1440)
    IN  c[1] * 10000 + c[2] * 100 + c[3]

\* x.strftime("%H%M%S") as an integer; the instants of the model carry no seconds
StrfTime(t) ==
    LET r == t % 1440
    IN  (r \div 60) * 10000 + (r % 60) * 100

\* int(x.strftime("%Y%m%d%H%M%S")), as the pair <<YYYYMMDD, HHMMSS>>
StrfDatetime(t) == <<StrfDate(t), StrfTime(t)>>

\* the order of two YYYYMMDDHHMMSS integers
DtLeq(a, b) == a[1] < b[1] \/ (a[1] = b[1] /\ a[2] <= b[2])

\* ------------------------------------------------------------ the store
\* An item of the table: the composite key (datetime, date) and the row of
\* per-country integer net flows, held as one value.
Key(item) == <<item.datetime, item.date>>

\* dynamo_db_table.get_item(Key=...): the items under that key (at most one)
get_item(st, key) == {x \in st : Key(x) = key}

put_item_lost(st, input) == st

\* dynamo_db_table.put_item(Item=input): creates the item or replaces the
\* item that has the same key
put_item(st, input) == {x \in st : Key(x) # Key(input)} \cup {input}

check_if_exists_never(st, input) == FALSE

\* "Item" in response
check_if_exists(st, input) == get_item(st, Key(input)) # {}

VARIABLES store, ipc, qn, recs, idx, result, written, snap, upfail,
          now, qpc, now0, end_range, start_range, date_keys, data, qresult

ivars == <<ipc, qn, recs, idx, result, written, snap, upfail>>
qvars == <<now, qpc, now0, end_range, start_range, date_keys, data, qresult>>
vars == <<store, ivars, qvars>>

\* ------------------------------------------------------- Ingestion Job
\* The timestamps upstream may report, 15 minutes apart, across midnight.
IngestTimes == {15 * (IngestFirst + k) : k \in 0..(NumTimes - 1)}

\* The combined, forward-filled, sanitised net-flow table of one invocation:
\* one row value per timestamp it carries.
Tables == UNION {[S -> Vals] : S \in (SUBSET IngestTimes) \ {{}}}

MinOf(S) == CHOOSE x \in S : \A y \in S : x <= y

RECURSIVE RowsFrom(_, _)
RowsFrom(tbl, S) ==
    IF S = {} THEN <<>>
    ELSE LET t == MinOf(S)
         IN  <<[datetime |-> StrfDatetime(t), date |-> StrfDate(t), val |-> tbl[t]]>>
             \o RowsFrom(tbl, S \ {t})

\* convert_df_datetime_to_strftime, set_index, convert_df_to_json: the list
\* of records, in the order of the table's time index
convert_df_to_json(tbl) == RowsFrom(tbl, DOMAIN tbl)

NoResult == [kind |-> "none", statusCode |-> 0, body |-> ""]
Returned(code, body) == [kind |-> "returned", statusCode |-> code, body |-> body]
Raised(what) == [kind |-> "raised", statusCode |-> 0, body |-> what]

\* What lambda_handler does with an exception that reaches it: only
\* requests.exceptions.HTTPError is caught; anything else leaves the handler.
HandlerOutcome(exc) ==
    CASE exc = "HTTPError403" -> Returned(500, "API Authentication Failed")
      [] exc = "HTTPError" -> Returned(500, "error")
      [] OTHER -> Raised(exc)

QueryOutcomes == {"ok", "HTTPError403", "HTTPError", "ConnectionError"}

QueryErrorSwallowed(outcome) == FALSE

\* get_net_flow and get_all_interconnector_flows re-raise what a query raises
QueryErrorPropagates(outcome) == outcome # "ok"

LoopDoneEarly(rs, k) == k >= Len(rs)

\* for entry in interconnector_dict: the loop is over after the last entry
LoopDone(rs, k) == k > Len(rs)

InitIngest ==
    /\ ipc = [i \in Inv |-> "idle"]
    /\ qn = [i \in Inv |-> 0]
    /\ recs = [i \in Inv |-> <<>>]
    /\ idx = [i \in Inv |-> 0]
    /\ result = [i \in Inv |-> NoResult]
    /\ written = [i \in Inv |-> {}]
    /\ snap = [i \in Inv |-> {}]
    /\ upfail = [i \in Inv |-> FALSE]

\* The handler is entered: get_date_range, then the first remote query.
Start(i) ==
    /\ ipc[i] = "idle"
    /\ ipc' = [ipc EXCEPT ![i] = "query"]
    /\ snap' = [snap EXCEPT ![i] = store]
    /\ UNCHANGED <<store, qn, recs, idx, result, written, upfail>>

\* One client.query_crossborder_flows call: outward then inward, country by
\* country.  After the last one the table is combined and converted.
\* upfail records that a query of the invocation has failed.
Query(i) ==
    /\ ipc[i] = "query"
    /\ \E outcome \in QueryOutcomes :
        IF QueryErrorPropagates(outcome)
        THEN /\ ipc' = [ipc EXCEPT ![i] = "done"]
             /\ result' = [result EXCEPT ![i] = HandlerOutcome(outcome)]
             /\ upfail' = [upfail EXCEPT ![i] = TRUE]
             /\ UNCHANGED <<qn, recs, idx>>
        ELSE IF qn[i] + 1 < TotalQueries
        THEN /\ qn' = [qn EXCEPT ![i] = @ + 1]
             /\ upfail' = [upfail EXCEPT ![i] = @ \/ outcome # "ok"]
             /\ UNCHANGED <<ipc, recs, idx, result>>
        ELSE /\ \E tbl \in Tables :
                  recs' = [recs EXCEPT ![i] = convert_df_to_json(tbl)]
             /\ qn' = [qn EXCEPT ![i] = @ + 1]
             /\ idx' = [idx EXCEPT ![i] = 1]
             /\ ipc' = [ipc EXCEPT ![i] = "get"]
             /\ upfail' = [upfail EXCEPT ![i] = @ \/ outcome # "ok"]
             /\ UNCHANGED result
    /\ UNCHANGED <<store, written, snap>>

\* update_dynamo_db moves to the next entry, or lambda_handler returns 200
Advance(i) ==
    IF LoopDone(recs[i], idx[i] + 1)
    THEN /\ ipc' = [ipc EXCEPT ![i] = "done"]
         /\ result' = [result EXCEPT ![i] = Returned(200, "Everything works!")]
         /\ idx' = [idx EXCEPT ![i] = @ + 1]
    ELSE /\ ipc' = [ipc EXCEPT ![i] = "get"]
         /\ idx' = [idx EXCEPT ![i] = @ + 1]
         /\ UNCHANGED result

StoreFails(i) ==
    /\ ipc' = [ipc EXCEPT ![i] = "done"]
    /\ result' = [result EXCEPT ![i] = HandlerOutcome("ClientError")]
    /\ UNCHANGED idx

\* put_into_dynamo_db, first half: check_if_exists(input) calls get_item
GetItem(i) ==
    /\ ipc[i] = "get"
    /\ \/ IF check_if_exists(store, recs[i][idx[i]])
          THEN Advance(i)
          ELSE /\ ipc' = [ipc EXCEPT ![i] = "put"]
               /\ UNCHANGED <<idx, result>>
       \/ StoreFails(i)
    /\ UNCHANGED <<store, qn, recs, written, snap, upfail>>

\* put_into_dynamo_db, second half: put_item(Item=input)
PutItem(i) ==
    /\ ipc[i] = "put"
    /\ \/ /\ store' = put_item(store, recs[i][idx[i]])
          /\ written' = [written EXCEPT ![i] = @ \cup {Key(recs[i][idx[i]])}]
          /\ Advance(i)
       \/ /\ StoreFails(i)
          /\ UNCHANGED <<store, written>>
    /\ UNCHANGED <<qn, recs, snap, upfail>>

\* The invocation is over; the next trigger starts afresh.
Finish(i) ==
    /\ ipc[i] = "done"
    /\ ipc' = [ipc EXCEPT ![i] = "idle"]
    /\ qn' = [qn EXCEPT ![i] = 0]
    /\ recs' = [recs EXCEPT ![i] = <<>>]
    /\ idx' = [idx EXCEPT ![i] = 0]
    /\ result' = [result EXCEPT ![i] = NoResult]
    /\ written' = [written EXCEPT ![i] = {}]
    /\ snap' = [snap EXCEPT ![i] = {}]
    /\ upfail' = [upfail EXCEPT ![i] = FALSE]
    /\ UNCHANGED store

\* ------------------------------------------------------- Query Service
\* t.replace(second=0, microsecond=0, minute=0, hour=t.hour)
\*     + timedelta(hours=t.minute // 30)
hour_rounder(t) == (t - (t % 60)) + 60 * ((t % 60) \div RoundAtMinute)

\* int(str(dt)[:8]): the leading eight digits of a 14-digit integer
KeyDate(dt) == dt[1]

\* datetime.strptime(str(n), "%Y%m%d%H%M%S"): the six fields of the integer
strptime(dt) ==
    [year |-> dt[1] \div 10000, month |-> (dt[1] \div 100) % 100, day |-> dt[1] % 100,
     hour |-> dt[2] \div 10000, minute |-> (dt[2] \div 100) % 100, second |-> dt[2] % 100]

\* days from 1970-01-01 to the civil date y-m-d
DaysFromCivil(y0, m, d) ==
    LET y == IF m <= 2 THEN y0 - 1 ELSE y0
        era == y \div 400
        yoe == y - era * 400
        doy == (153 * (IF m > 2 THEN m - 3 ELSE m + 9) + 2) \div 5 + d - 1
        doe == yoe * 365 + yoe \div 4 - yoe \div 100 + doy
    IN  era * 146097 + doe - 719468

\* calendar.timegm(time_stamp.timetuple())
timegm(ts) ==
    DaysFromCivil(ts.year, ts.month, ts.day) * 86400
        + ts.hour * 3600 + ts.minute * 60 + ts.second

\* sorted(items, key=lambda x: x["datetime"]): insertion into a sorted list,
\* after the entries that are not greater (the sort is stable)
RECURSIVE InsertSorted(_, _)
InsertSorted(x, s) ==
    IF s = <<>> THEN <<x>>
    ELSE IF DtLeq(Head(s).datetime, x.datetime) THEN <<Head(s)>> \o InsertSorted(x, Tail(s))
    ELSE <<x>> \o s

unsorted(s) == s

RECURSIVE sorted(_)
sorted(s) ==
    IF s = <<>> THEN <<>>
    ELSE InsertSorted(s[Len(s)], sorted(SubSeq(s, 1, Len(s) - 1)))

\* convert_to_epoch: every record's datetime replaced by its epoch seconds
convert_to_epoch(s) ==
    [k \in 1..Len(s) |->
        [datetime |-> timegm(strptime(s[k].datetime)), date |-> s[k].date, val |-> s[k].val]]

\* The composite keys the batch get asks for
RequestKeys(keys) == {<<keys[k], KeyDate(keys[k])>> : k \in 1..Len(keys)}

\* boto_client.batch_get_item: the stored items under the requested keys
batch_get_item(st, keys) == {x \in st : Key(x) \in RequestKeys(keys)}

\* The orders in which the service may list a set of items
RECURSIVE OrdersOf(_)
OrdersOf(S) ==
    IF S = {} THEN {<<>>}
    ELSE UNION {{<<x>> \o s : s \in OrdersOf(S \ {x})} : x \in S}

\* The handler is entered: get_date_keys reads the clock and rounds it.
QStart ==
    /\ qpc = "idle"
    /\ now0' = now
    /\ end_range' = hour_rounder(now)
    /\ start_range' = hour_rounder(now) - WindowHours * 60
    /\ date_keys' = <<>>
    /\ qpc' = "loop"
    /\ UNCHANGED <<now, data, qresult>>

\* One test of "while start_range <= datetime.datetime.today()", and the
\* body of the loop when it holds.
QLoop ==
    /\ qpc = "loop"
    /\ IF start_range <= now
       THEN /\ start_range' = start_range + StepMinutes
            /\ date_keys' = Append(date_keys, StrfDatetime(start_range + StepMinutes))
            /\ UNCHANGED qpc
       ELSE /\ qpc' = "fetch"
            /\ UNCHANGED <<start_range, date_keys>>
    /\ UNCHANGED <<now, now0, end_range, data, qresult>>

\* The clock moves on while the loop runs.
Tick ==
    /\ qpc = "loop"
    /\ now - now0 < MaxDrift
    /\ now' = now + 1
    /\ UNCHANGED <<qpc, now0, end_range, start_range, date_keys, data, qresult>>

\* get_todays_data_from_db from the batch get on, and lambda_handler's
\* response.  The service lists the table in "Responses" with the items it
\* found, an empty list when it found none; a reply without the table is
\* kept as a second outcome of an empty result.
QFetch ==
    /\ qpc = "fetch"
    /\ \/ \E items \in OrdersOf(batch_get_item(store, date_keys)) :
            \E listed \in (IF items = <<>> THEN BOOLEAN ELSE {TRUE}) :
                IF listed
                THEN /\ data' = convert_to_epoch(sorted(items))
                     /\ qresult' = Returned(200, "data")
                ELSE /\ data' = <<>>
                     /\ qresult' = Returned(500, "No data found in DynamoDB response")
       \/ /\ data' = <<>>
          /\ qresult' = Returned(500, "Error fetching data from DynamoDB")
    /\ qpc' = "done"
    /\ UNCHANGED <<now, now0, end_range, start_range, date_keys>>

\* What the table may hold when a query arrives: rows ingestion wrote, for
\* any set of the timestamps, with row values that differ from row to row.
QueryTimes == IngestTimes \cup {15 * OldSlot}
QueryTables ==
    {[t \in S |-> 1 + ((t \div 15 + g) % NumVals)] : S \in SUBSET QueryTimes, g \in Vals}
Rows(tbl) ==
    {[datetime |-> StrfDatetime(t), date |-> StrfDate(t), val |-> tbl[t]] : t \in DOMAIN tbl}

InitQuery ==
    /\ \E tbl \in QueryTables : store = Rows(tbl)
    /\ InitIngest
    /\ now \in NowFirst..(NowFirst + NowSpan)
    /\ qpc = "idle"
    /\ now0 = 0
    /\ end_range = 0
    /\ start_range = 0
    /\ date_keys = <<>>
    /\ data = <<>>
    /\ qresult = NoResult

NextQuery ==
    \/ QStart /\ UNCHANGED <<store, ivars>>
    \/ QLoop /\ UNCHANGED <<store, ivars>>
    \/ Tick /\ UNCHANGED <<store, ivars>>
    \/ QFetch /\ UNCHANGED <<store, ivars>>

SpecQuery == InitQuery /\ [][NextQuery]_vars

QueryIdle ==
    /\ now = 0
    /\ qpc = "idle"
    /\ now0 = 0
    /\ end_range = 0
    /\ start_range = 0
    /\ date_keys = <<>>
    /\ data = <<>>
    /\ qresult = NoResult

Init ==
    /\ store = {}
    /\ InitIngest
    /\ QueryIdle

\* Invocations overlap freely: their store calls interleave in any order.
Next ==
    \/ \E i \in Inv : Start(i) /\ UNCHANGED qvars
    \/ \E i \in Inv : Query(i) /\ UNCHANGED qvars
    \/ \E i \in Inv : GetItem(i) /\ UNCHANGED qvars
    \/ \E i \in Inv : PutItem(i) /\ UNCHANGED qvars
    \/ \E i \in Inv : Finish(i) /\ UNCHANGED qvars

Spec == Init /\ [][Next]_vars

\* Invocations run one after another.
StartAlone(i) ==
    /\ \A j \in Inv : ipc[j] = "idle"
    /\ Start(i)

NextSeq ==
    \/ \E i \in Inv : StartAlone(i) /\ UNCHANGED qvars
    \/ \E i \in Inv : Query(i) /\ UNCHANGED qvars
    \/ \E i \in Inv : GetItem(i) /\ UNCHANGED qvars
    \/ \E i \in Inv : PutItem(i) /\ UNCHANGED qvars
    \/ \E i \in Inv : Finish(i) /\ UNCHANGED qvars

SpecSeq == Init /\ [][NextSeq]_vars

\* ================================================================ claims

Done(i) == ipc[i] = "done"
Succeeded(i) == Done(i) /\ result[i] = Returned(200, "Everything works!")
RecKeys(i, lo, hi) == {Key(recs[i][k]) : k \in lo..hi}
StoreKeys == {Key(x) : x \in store}
AbsentAtStart(i, key) == get_item(snap[i], key) = {}

\* C1: invocations run one after another: an item that is in the store stays
\* in the store with the same field values in every later state, so a later
\* put_into_dynamo_db for its key leaves it as it is.
C1_FirstWriteWins == [][\A x \in store : x \in store']_vars

\* C1 witness: an invocation has gone through all its records and one of them
\* carries another value than the item stored under its key.
C1_Witness ==
    \E i \in Inv :
        /\ Succeeded(i)
        /\ \E k \in 1..Len(recs[i]) : \E x \in store :
              Key(x) = Key(recs[i][k]) /\ x.val # recs[i][k].val

\* C2: invocations overlap: no step replaces the item stored under a key by
\* another item of that key.
C2_OverlapKeepsFirstWrite ==
    [][\A x \in store : \A y \in store' : Key(y) = Key(x) => y = x]_vars

\* C3: after an invocation that returned 200, every record of its table has
\* an item under its key: the invocation's own record where the key was
\* absent when it started, the item that was there where it was present.
C3_AllKeysStoredAfter200 ==
    \A i \in Inv :
        Succeeded(i) =>
            \A k \in 1..Len(recs[i]) :
                IF AbsentAtStart(i, Key(recs[i][k]))
                THEN recs[i][k] \in store
                ELSE get_item(snap[i], Key(recs[i][k])) \subseteq store

\* C3 witness: a 200 whose table had an absent key and a present key that
\* carried another value.
C3_Witness ==
    \E i \in Inv :
        /\ Succeeded(i)
        /\ \E k \in 1..Len(recs[i]) : AbsentAtStart(i, Key(recs[i][k]))
        /\ \E k \in 1..Len(recs[i]) : \E x \in snap[i] :
              Key(x) = Key(recs[i][k]) /\ x.val # recs[i][k].val

\* C4: an invocation one of whose remote queries failed has called put_item
\* for no key, and the store is as it was when the invocation started.
C4_NoPutAfterQueryFailure ==
    \A i \in Inv : upfail[i] => written[i] = {} /\ store = snap[i]

\* C4 witness: the query that failed came after three queries that succeeded
\* (the second country's inward query), with items already in the store.
C4_Witness ==
    \E i \in Inv : upfail[i] /\ Done(i) /\ qn[i] = 3 /\ store # {}

\* C5 as claimed: an invocation that is over either succeeded with all its
\* records stored, or failed and inserted none.
C5_AllOrNothing ==
    \A i \in Inv :
        Done(i) =>
            \/ Succeeded(i) /\ RecKeys(i, 1, Len(recs[i])) \subseteq StoreKeys
            \/ ~Succeeded(i) /\ written[i] = {}

\* C5 amended: an invocation that is over succeeded exactly when it went
\* through all its records; the records before its loop position all have an
\* item in the store, and a record from the loop position on whose key was
\* absent at the start is still absent: a failure part-way leaves the
\* records before the failing one written and none after.
C5_PrefixWritten ==
    \A i \in Inv :
        Done(i) =>
            /\ Succeeded(i) <=> (recs[i] # <<>> /\ idx[i] = Len(recs[i]) + 1)
            /\ ~Succeeded(i) => result[i].statusCode # 200
            /\ \A k \in 1..Len(recs[i]) :
                  IF k < idx[i]
                  THEN Key(recs[i][k]) \in StoreKeys
                  ELSE AbsentAtStart(i, Key(recs[i][k]))
                          => Key(recs[i][k]) \notin StoreKeys
            /\ upfail[i] => store = snap[i]

\* C5 witness: the store failed at the second record, after the first had
\* been inserted.
C5_Witness ==
    \E i \in Inv :
        /\ Done(i) /\ ~Succeeded(i)
        /\ idx[i] = 2 /\ Len(recs[i]) >= 2
        /\ written[i] = {Key(recs[i][1])}
        /\ Key(recs[i][2]) \notin StoreKeys

\* C6: every invocation that is over, of either entrypoint, has returned a
\* response; when anything failed in it the response has statusCode 500.
C6_NothingEscapes ==
    /\ \A i \in Inv :
          Done(i) =>
              /\ result[i].kind = "returned"
              /\ ~Succeeded(i) => result[i].statusCode = 500
    /\ qpc = "done" =>
              /\ qresult.kind = "returned"
              /\ qresult.statusCode \in {200, 500}

\* C7: get_date_keys generates at most 96 keys (24 hours of 15-minute
\* steps), so the response carries at most 96 records.
C7_AtMost96Keys ==
    /\ Len(date_keys) <= (WindowHours * 60) \div StepMinutes
    /\ Len(data) <= (WindowHours * 60) \div StepMinutes

\* C8: every generated key t lies in the last 24 hours of the time now0 the
\* invocation started at: now0 - 24h <= t <= now0.
C8_KeysWithinLast24h ==
    \A k \in 1..Len(date_keys) :
        /\ DtLeq(StrfDatetime(now0 - WindowHours * 60), date_keys[k])
        /\ DtLeq(date_keys[k], StrfDatetime(now0))

\* C9: when the store holds no item under any generated key, the Query
\* Service responds with statusCode 500.
C9_TotalAbsenceIs500 ==
    (qpc = "done" /\ batch_get_item(store, date_keys) = {})
        => qresult.statusCode = 500

\* The record the Query Service owes for a stored item of instant t
Owed(t, x) ==
    [datetime |-> BaseDays * 86400 + t * 60, date |-> StrfDate(t), val |-> x.val]
OwedRecords ==
    {Owed(t, x) : <<t, x>> \in
        {p \in QueryTimes \X batch_get_item(store, date_keys) :
            p[2].datetime = StrfDatetime(p[1])}}
FetchFailed == qresult = Returned(500, "Error fetching data from DynamoDB")

\* C10: the batch get did not fail and the store holds items under some but
\* not all generated keys: the response is a 200 whose records are exactly
\* the stored items of those keys, each once, with datetime as the epoch
\* seconds of its instant, in non-decreasing order of epoch seconds, which
\* is the order of the YYYYMMDDHHMMSS integers they were stored under.
C10_PartialSubsetSorted ==
    (qpc = "done" /\ ~FetchFailed /\ batch_get_item(store, date_keys) # {}) =>
        /\ Cardinality(batch_get_item(store, date_keys)) < Len(date_keys)
        /\ qresult.statusCode = 200
        /\ Len(data) = Cardinality(batch_get_item(store, date_keys))
        /\ {data[k] : k \in 1..Len(data)} = OwedRecords
        /\ \A j, k \in 1..Len(data) :
              j < k =>
                  /\ data[j].datetime <= data[k].datetime
                  /\ \E x, y \in batch_get_item(store, date_keys) :
                        /\ timegm(strptime(x.datetime)) = data[j].datetime
                        /\ timegm(strptime(y.datetime)) = data[k].datetime
                        /\ DtLeq(x.datetime, y.datetime)

\* C10 witness: two items on either side of midnight are returned and a
\* third stored item, outside the requested keys, is not.
C10_Witness ==
    /\ qpc = "done"
    /\ qresult.statusCode = 200
    /\ Len(data) >= 2
    /\ data[1].date # data[2].date
    /\ Cardinality(store) > Len(data)

====
